---- MODULE Spec2Model ----
(***************************************************************************)
(* A model of beep's feature-extraction and dataset-assembly pipeline:     *)
(*   - BeepDataset (src/beep/dataset.py): from_features, the inner join,   *)
(*     generate_train_test_split and get_parameter_dict;                   *)
(*   - BeepFeatures.from_run, the extractors' validate_data and the batch  *)
(*     driver process_file_list_from_json (src/beep/featurize.py).         *)
(* The specifications share the variables: SpecDataset drives the dataset  *)
(* builder, SpecSplit and SpecRepeat the split, SpecBatch the batch        *)
(* featurizer; SpecValidate, SpecNames and SpecRunRecords each apply one   *)
(* function (validate_data, get_feature_object_name_and_path,              *)
(* from_processed_cycler_runs) to the inputs it can get; SpecFeatures      *)
(* applies the feature computations, SpecPersist as_dict and from_dict to  *)
(* a built dataset, SpecListing the per-project listings of the builders.  *)
(***************************************************************************)
EXTENDS Integers, Sequences, FiniteSets, TLC

VARIABLES
    \* ---- BeepDataset object (dataset.py:52-74) ----
    built,          \* TRUE once a constructor call returned a dataset
    data,           \* self.data: the joined table, one run identifier ('file') per row
    filenames,      \* self.filenames: df.file.unique()
    feature_sets,   \* self.feature_sets: sequence of <<variant, columns>>
    X_train, X_test, y_train, y_test,
    train_cells_parameter_dict, test_cells_parameter_dict,
    rng,            \* state of numpy's global random generator
    err,            \* exception raised by the last call, or "none"
    tables,         \* history: the per-variant tables handed to the join
    last_call,      \* history: arguments and outcome of the last split call
    ref_split,      \* history: one remembered earlier split (arguments, partitions,
                    \* calls made since, counted up to 2)
    \* ---- batch driver (featurize.py:1060-1136) ----
    pc,             \* position of process_file_list_from_json / main
    file_list, run_ids,
    run_pos, cls_pos,
    processed_cycler_run,
    processed_paths_list, processed_run_list,
    processed_result_list, processed_message_list,
    dumped,         \* the names handed to dumpfn, in call order
    calls,          \* history: calls made by the last from_run
    last_pair,      \* history: outcome of the last (run, extractor) step
    output_data,    \* the emitted manifest, or NoneVal
    raised,         \* exception that left main, or "none"
    \* ---- single calls of one function ----
    call_args,      \* history: the function called (fn) and its arguments
    call_ret        \* history: what the call returned or raised, or NoneVal

dsVars == <<built, data, filenames, feature_sets, X_train, X_test, y_train, y_test,
            train_cells_parameter_dict, test_cells_parameter_dict, rng, err,
            tables, last_call, ref_split>>

batchVars == <<pc, file_list, run_ids, run_pos, cls_pos, processed_cycler_run,
               processed_paths_list, processed_run_list, processed_result_list,
               processed_message_list, dumped, calls, last_pair, output_data, raised>>

fnVars == <<call_args, call_ret>>

vars == <<dsVars, batchVars, fnVars>>

\* ------------------------------------------------------------------ bounds
\* run identifiers (protocol names) are 1..MaxRun
MaxRun == 3
\* seeds offered to generate_train_test_split are 1..MaxSeed
MaxSeed == 2
\* rows a stored multi-row feature table may hold
MaxRowsPerFile == 2
\* runs in the batch driver's file_list
MaxFiles == 2

RunIds == 1..MaxRun
Seeds == 1..MaxSeed

\* Python's None
NoneVal == [tag |-> "None"]

\* ------------------------------------------------------------------ helpers
Range(s) == {s[i] : i \in 1..Len(s)}

\* pandas Series.unique(): distinct values in order of first appearance
RECURSIVE Unique(_)
Unique(s) ==
    IF s = <<>> THEN <<>>
    ELSE LET u == Unique(SubSeq(s, 1, Len(s) - 1))
         IN IF s[Len(s)] \in Range(u) THEN u ELSE Append(u, s[Len(s)])

\* [i for i in 1..Len(s) if Test(s[i])], as a sequence of positions
RECURSIVE Positions(_, _)
Positions(s, keep) ==
    IF s = <<>> THEN <<>>
    ELSE LET p == Positions(SubSeq(s, 1, Len(s) - 1), keep)
         IN IF s[Len(s)] \in keep THEN Append(p, Len(s)) ELSE p

RECURSIVE Flatten(_)
Flatten(ss) == IF ss = <<>> THEN <<>> ELSE Head(ss) \o Flatten(Tail(ss))

\* ------------------------------------------------------------------ feature store
\* the extractor variants a dataset is assembled from (class_feature_name)
Variants == {"DeltaQFastCharge", "DiagnosticProperties"}

\* list(obj.X.columns) of a stored feature table of the variant
VariantColumns(v) ==
    IF v = "DeltaQFastCharge" THEN <<"discharge_capacity_cycle_2">>
    ELSE <<"fractional_metric">>

\* rows a stored feature table of the variant may hold: one row per run, except
\* DiagnosticProperties, which emits one row per diagnostic occurrence
RowCounts(v) == IF v = "DiagnosticProperties" THEN 1..MaxRowsPerFile ELSE {1}

\* file names are sequences of characters; projects are name prefixes
Projects == {<<"P">>, <<"P", "D">>}
FileNames == {<<"P", "a">>, <<"P", "D", "a">>}

\* str.startswith
StartsWith(f, project) ==
    /\ Len(project) <= Len(f)
    /\ SubSeq(f, 1, Len(project)) = project

\* what os.listdir(<feature_dir>/<variant>) and loadfn can show: at most one
\* stored feature table per file name, in any listing order
FeatureFiles(v) == [name : FileNames, protocol : RunIds, nrows : RowCounts(v)]

Listings(v) ==
    {<<>>}
    \cup {<<f>> : f \in FeatureFiles(v)}
    \cup {fg \in {<<f, g>> : f \in FeatureFiles(v), g \in FeatureFiles(v)} :
             fg[1].name # fg[2].name}

\* df = obj.X; df['file'] = obj.metadata['protocol'] (dataset.py:125-126):
\* every row of the table carries the run identifier of its source
FileRows(f) == [i \in 1..f.nrows |-> f.protocol]

\* feature_jsons of one project (dataset.py:120-122), concatenated (dataset.py:123-127)
ProjectRows(listing, project) ==
    Flatten([i \in 1..Len(listing) |->
        IF StartsWith(listing[i].name, project) THEN FileRows(listing[i]) ELSE <<>>])

\* feature_df of one variant: the loop over project_list (dataset.py:117-127)
VariantTable(listing, project_list) ==
    Flatten([p \in 1..Len(project_list) |-> ProjectRows(listing, project_list[p])])

\* list(feature_df.columns) (dataset.py:132): an empty frame has no columns at all
TableColumns(v, table) ==
    IF table = <<>> THEN <<>> ELSE Append(VariantColumns(v), "file")

\* ------------------------------------------------------------------ the join
\* pd.merge(x, y, on='file', how='inner') on the key column: one row per pair of
\* a row of x and a row of y with the same key, in the order of the left keys
MergeInnerBug(x, y) == x

MergeInner(x, y) ==
    Flatten([i \in 1..Len(x) |-> SelectSeq(y, LAMBDA k : k = x[i])])

\* reduce(lambda x, y: pd.merge(...), feature_df_list) (dataset.py:134) for a
\* non-empty list of tables
RECURSIVE ReduceMerge(_)
ReduceMerge(ts) ==
    IF Len(ts) = 1 THEN ts[1]
    ELSE MergeInner(ReduceMerge(SubSeq(ts, 1, Len(ts) - 1)), ts[Len(ts)])

\* the exception from_features ends with, or "none" (dataset.py:134-135):
\* reduce() of an empty list is a TypeError; merging on 'file' a frame that has
\* no such column is a KeyError; df.file of a single empty frame an AttributeError
JoinError(ts) ==
    IF ts = <<>> THEN "TypeError"
    ELSE IF Len(ts) = 1 /\ ts[1] = <<>> THEN "AttributeError"
    ELSE IF \E i \in 1..Len(ts) : ts[i] = <<>> THEN "KeyError"
    ELSE "none"

\* feature_class_list: a list of distinct variants, possibly empty
FeatureClassLists ==
    {<<>>} \cup {<<v>> : v \in Variants}
    \cup {vw \in {<<v, w>> : v \in Variants, w \in Variants} : vw[1] # vw[2]}

\* project_list: up to two projects, the same one twice included
ProjectLists ==
    {<<>>} \cup {<<p>> : p \in Projects} \cup {<<p, q>> : p \in Projects, q \in Projects}

\* BeepDataset.from_features (dataset.py:99-135), called once; store[v] is the
\* listing of <feature_dir>/<v>
FromFeatures ==
    /\ ~built /\ err = "none"
    /\ \E project_list \in ProjectLists, feature_class_list \in FeatureClassLists :
       \E dq \in Listings("DeltaQFastCharge"), dp \in Listings("DiagnosticProperties") :
           LET store == [v \in Variants |-> IF v = "DeltaQFastCharge" THEN dq ELSE dp]
               feature_df_list == [i \in 1..Len(feature_class_list) |->
                   VariantTable(store[feature_class_list[i]], project_list)]
               e == JoinError(feature_df_list)
           IN /\ tables' = feature_df_list
              /\ err' = e
              /\ IF e = "none"
                 THEN /\ built' = TRUE
                      /\ data' = ReduceMerge(feature_df_list)
                      /\ filenames' = Unique(ReduceMerge(feature_df_list))
                      /\ feature_sets' = [i \in 1..Len(feature_class_list) |->
                             <<feature_class_list[i],
                               TableColumns(feature_class_list[i], feature_df_list[i])>>]
                 ELSE UNCHANGED <<built, data, filenames, feature_sets>>
    /\ UNCHANGED <<X_train, X_test, y_train, y_test, train_cells_parameter_dict,
                   test_cells_parameter_dict, rng, last_call, ref_split>>
    /\ UNCHANGED batchVars
    /\ UNCHANGED fnVars

\* ------------------------------------------------------------------ the split
\* np.random.seed(seed) (dataset.py:222): the generator's state is a function of
\* the seed alone.  numpy's generator is modelled by a small linear congruential
\* generator: deterministic, and with a state that every draw advances.
SeedStateBug(seed) == rng

SeedState(seed) == (5 * seed + 1) % 16

NextState(x) == (5 * x + 3) % 16

\* np.random.choice(a, size) (dataset.py:224): size draws WITH replacement
\* (replace defaults to True), each an index into a
RECURSIVE RandomChoice(_, _, _)
RandomChoice(a, size, state) ==
    IF size = 0 THEN [cells |-> <<>>, state |-> state]
    ELSE LET s1 == NextState(state)
             rest == RandomChoice(a, size - 1, s1)
         IN [cells |-> <<a[((s1 \div 2) % Len(a)) + 1]>> \o rest.cells,
             state |-> rest.state]

\* test_size, in tenths (0.4 is the default, dataset.py:200)
TestSizeTenths == {4, 7}

\* int(len(self.filenames) * test_size) (dataset.py:224): truncation
NumTestCells(n, tenths) == (n * tenths) \div 10

\* [x for x in self.filenames if x not in test_cells] (dataset.py:225)
TrainCellsBug(names, test_cells) == names

TrainCells(names, test_cells) ==
    SelectSeq(names, LAMBDA x : x \notin Range(test_cells))

\* a list argument, or None
List(items) == [tag |-> "list", items |-> items]

\* a sub-table of self.data: the selected rows (positions in data) and columns
Frame(rows, cols) == [tag |-> "frame", rows |-> rows, cols |-> cols]

\* self.data.loc[self.data.file.isin(cells), columns] (dataset.py:227-231)
RowsOfBug(cells, columns) ==
    Frame(Positions(data, Range(cells) \ {data[Len(data)]}), columns.items)

RowsOf(cells, columns) == Frame(Positions(data, Range(cells)), columns.items)

\* the columns of self.data
DataColumns == UNION {Range(feature_sets[i][2]) : i \in 1..Len(feature_sets)}

\* .loc[..., columns] and data[columns] raise KeyError for an unknown column
ColumnsKnown(columns) == Range(columns.items) \subseteq DataColumns

\* the is-None tests of dataset.py:216-220
Missing(columns) == columns = NoneVal

\* get_protocol_parameters(file, parameters_path)[0].to_dict('records')[0]
\* (dataset.py:267-268): the run's row of the external protocol-parameter store
ParamRow(file) == <<"parameters", file>>

\* get_parameter_dict (dataset.py:257-269): the dictionary, keyed by the files
ParameterDict(files) == [f \in Range(files) |-> ParamRow(f)]

\* the predictors and outcomes arguments offered: absent, empty, or a column
PredictorChoices == {NoneVal, List(<<>>), List(<<"discharge_capacity_cycle_2">>)}
OutcomeChoices == {NoneVal, List(<<>>), List(<<"fractional_metric">>)}

\* the parameters_path argument: None, or a directory
PathChoices == {NoneVal, [tag |-> "path"]}

\* generate_train_test_split (dataset.py:199-240): the values of the object's
\* fields and of the generator when the call returns or raises
SplitReseedFirst(predictors, outcomes, split_by_cell, test_size, seed, parameters_path) ==
    LET same == [err |-> "none", rng |-> rng,
                 X_train |-> X_train, X_test |-> X_test,
                 y_train |-> y_train, y_test |-> y_test,
                 train_dict |-> train_cells_parameter_dict,
                 test_dict |-> test_cells_parameter_dict,
                 test_cells |-> <<>>, train_cells |-> <<>>, assigned |-> FALSE]
        seeded == SeedState(seed)
        ch == RandomChoice(filenames, NumTestCells(Len(filenames), test_size), seeded)
        test_cells == ch.cells
        train_cells == TrainCells(filenames, test_cells)
        drawn == [same EXCEPT !.rng = ch.state, !.test_cells = test_cells,
                              !.train_cells = train_cells]
        withX == [drawn EXCEPT !.X_train = RowsOf(train_cells, predictors),
                               !.X_test = RowsOf(test_cells, predictors)]
        withY == [withX EXCEPT !.y_train = RowsOf(train_cells, outcomes),
                               !.y_test = RowsOf(test_cells, outcomes),
                               !.assigned = TRUE]
        withTest == [withY EXCEPT !.train_dict = ParameterDict(train_cells),
                                  !.test_dict = ParameterDict(test_cells)]
    IN  IF Missing(predictors) THEN [same EXCEPT !.err = "ValueError", !.rng = seeded]
        ELSE IF Missing(outcomes) THEN [same EXCEPT !.err = "ValueError", !.rng = seeded]
        ELSE IF ~split_by_cell
        THEN \* train_test_split(X, y, test_size, random_state=seed): test_size is
             \* passed as a third array, which sklearn rejects
             IF ~ColumnsKnown(predictors) \/ ~ColumnsKnown(outcomes)
             THEN [same EXCEPT !.err = "KeyError", !.rng = seeded]
             ELSE [same EXCEPT !.err = "TypeError", !.rng = seeded]
        ELSE IF ~ColumnsKnown(predictors) THEN [drawn EXCEPT !.err = "KeyError"]
        ELSE IF ~ColumnsKnown(outcomes) THEN [withX EXCEPT !.err = "KeyError"]
        ELSE IF parameters_path = NoneVal THEN withY
        ELSE withTest

\* generate_train_test_split (dataset.py:199-240): the values of the object's
\* fields and of the generator when the call returns or raises
Split(predictors, outcomes, split_by_cell, test_size, seed, parameters_path) ==
    LET same == [err |-> "none", rng |-> rng,
                 X_train |-> X_train, X_test |-> X_test,
                 y_train |-> y_train, y_test |-> y_test,
                 train_dict |-> train_cells_parameter_dict,
                 test_dict |-> test_cells_parameter_dict,
                 test_cells |-> <<>>, train_cells |-> <<>>, assigned |-> FALSE]
        seeded == SeedState(seed)
        ch == RandomChoice(filenames, NumTestCells(Len(filenames), test_size), seeded)
        test_cells == ch.cells
        train_cells == TrainCells(filenames, test_cells)
        drawn == [same EXCEPT !.rng = ch.state, !.test_cells = test_cells,
                              !.train_cells = train_cells]
        withX == [drawn EXCEPT !.X_train = RowsOf(train_cells, predictors),
                               !.X_test = RowsOf(test_cells, predictors)]
        withY == [withX EXCEPT !.y_train = RowsOf(train_cells, outcomes),
                               !.y_test = RowsOf(test_cells, outcomes),
                               !.assigned = TRUE]
        withTest == [withY EXCEPT !.train_dict = ParameterDict(train_cells),
                                  !.test_dict = ParameterDict(test_cells)]
    IN  IF Missing(predictors) THEN [same EXCEPT !.err = "ValueError"]
        ELSE IF Missing(outcomes) THEN [same EXCEPT !.err = "ValueError"]
        ELSE IF ~split_by_cell
        THEN \* train_test_split(X, y, test_size, random_state=seed): test_size is
             \* passed as a third array, which sklearn rejects
             IF ~ColumnsKnown(predictors) \/ ~ColumnsKnown(outcomes)
             THEN [same EXCEPT !.err = "KeyError", !.rng = seeded]
             ELSE [same EXCEPT !.err = "TypeError", !.rng = seeded]
        ELSE IF ~ColumnsKnown(predictors) THEN [drawn EXCEPT !.err = "KeyError"]
        ELSE IF ~ColumnsKnown(outcomes) THEN [withX EXCEPT !.err = "KeyError"]
        ELSE IF parameters_path = NoneVal THEN withY
        ELSE withTest

\* the arguments that decide the partitions
SplitKey(predictors, outcomes, split_by_cell, test_size, seed) ==
    [predictors |-> predictors, outcomes |-> outcomes, split_by_cell |-> split_by_cell,
     test_size |-> test_size, seed |-> seed]

\* what a call produced: the four partitions when it assigned them, else nothing
Produced(r) ==
    IF r.assigned THEN <<r.X_train, r.X_test, r.y_train, r.y_test>> ELSE <<>>

\* one call of generate_train_test_split with arguments drawn from the given
\* sets; remember says whether the call is the one kept in ref_split
SplitCall(predictorSet, outcomeSet, pathSet, rememberSet) ==
    /\ built
    /\ \E predictors \in predictorSet, outcomes \in outcomeSet,
          split_by_cell \in BOOLEAN, test_size \in TestSizeTenths, seed \in Seeds,
          parameters_path \in pathSet, remember \in rememberSet :
       \E r \in {Split(predictors, outcomes, split_by_cell, test_size, seed,
                        parameters_path)} :
        LET key == SplitKey(predictors, outcomes, split_by_cell, test_size, seed)
        IN  /\ err' = r.err
            /\ rng' = r.rng
            /\ X_train' = r.X_train
            /\ X_test' = r.X_test
            /\ y_train' = r.y_train
            /\ y_test' = r.y_test
            /\ train_cells_parameter_dict' = r.train_dict
            /\ test_cells_parameter_dict' = r.test_dict
            /\ last_call' = [key |-> key, parameters_path |-> parameters_path,
                             test_cells |-> r.test_cells, train_cells |-> r.train_cells,
                             produced |-> Produced(r)]
            /\ ref_split' =
                 IF remember
                 THEN [tag |-> "split", key |-> key, produced |-> Produced(r),
                       later |-> 0]
                 ELSE IF ref_split = NoneVal THEN ref_split
                 ELSE [ref_split EXCEPT !.later = IF @ < 2 THEN @ + 1 ELSE @]
    /\ UNCHANGED <<built, data, filenames, feature_sets, tables>>
    /\ UNCHANGED batchVars
    /\ UNCHANGED fnVars

\* generate_train_test_split, any arguments
GenerateTrainTestSplit ==
    SplitCall(PredictorChoices, OutcomeChoices, {NoneVal}, {FALSE})

\* generate_train_test_split with column lists given, one call being remembered
GenerateTrainTestSplitAgain ==
    SplitCall({List(<<"discharge_capacity_cycle_2">>)}, {List(<<"fractional_metric">>)},
              PathChoices, BOOLEAN)

\* ------------------------------------------------------------------ dataset spec
BatchIdle ==
    /\ pc = "idle"
    /\ file_list = <<>> /\ run_ids = <<>>
    /\ run_pos = 0 /\ cls_pos = 0
    /\ processed_cycler_run = NoneVal
    /\ processed_paths_list = <<>> /\ processed_run_list = <<>>
    /\ processed_result_list = <<>> /\ processed_message_list = <<>>
    /\ dumped = <<>>
    /\ calls = <<>>
    /\ last_pair = NoneVal
    /\ output_data = NoneVal
    /\ raised = "none"

FnIdle == call_args = [fn |-> "none"] /\ call_ret = NoneVal

DatasetIdle ==
    /\ built = FALSE
    /\ data = <<>> /\ filenames = <<>> /\ feature_sets = <<>>
    /\ X_train = NoneVal /\ X_test = NoneVal
    /\ y_train = NoneVal /\ y_test = NoneVal
    /\ train_cells_parameter_dict = <<>>
    /\ test_cells_parameter_dict = <<>>
    /\ err = "none"
    /\ tables = <<>>
    /\ last_call = NoneVal
    /\ ref_split = NoneVal

\* states in which numpy's global generator can be before the first seeding
\* (it is seeded from the operating system's entropy)
EntropyStates == {0, 9}

\* no dataset built yet
InitDataset ==
    /\ DatasetIdle
    /\ rng \in EntropyStates
    /\ BatchIdle
    /\ FnIdle

NextDataset == FromFeatures

SpecDataset == InitDataset /\ [][NextDataset]_vars

\* ------------------------------------------------------------------ split specs
\* a dataset as from_features returns it for both variants: DeltaQFastCharge
\* with one row for each of the runs 1..n, DiagnosticProperties with m rows for
\* each of them
BuiltTables(n, m) ==
    <<[r \in 1..n |-> r],
      Flatten([r \in 1..n |-> [i \in 1..m |-> r]])>>

InitSplit ==
    /\ \E n \in 1..MaxRun, m \in 1..MaxRowsPerFile :
        /\ tables = BuiltTables(n, m)
        /\ data = ReduceMerge(BuiltTables(n, m))
        /\ filenames = Unique(ReduceMerge(BuiltTables(n, m)))
        /\ feature_sets =
             <<<<"DeltaQFastCharge",
                 TableColumns("DeltaQFastCharge", BuiltTables(n, m)[1])>>,
               <<"DiagnosticProperties",
                 TableColumns("DiagnosticProperties", BuiltTables(n, m)[2])>>>>
    /\ built = TRUE
    /\ X_train = NoneVal /\ X_test = NoneVal
    /\ y_train = NoneVal /\ y_test = NoneVal
    /\ train_cells_parameter_dict = <<>>
    /\ test_cells_parameter_dict = <<>>
    /\ err = "none"
    /\ last_call = NoneVal
    /\ ref_split = NoneVal
    /\ rng \in EntropyStates
    /\ BatchIdle
    /\ FnIdle

NextSplit == GenerateTrainTestSplit

SpecSplit == InitSplit /\ [][NextSplit]_vars

NextRepeat == GenerateTrainTestSplitAgain

SpecRepeat == InitSplit /\ [][NextRepeat]_vars

\* ------------------------------------------------------------------ run records
\* DeltaQFastCharge.init_pred_cycle and final_pred_cycle
init_pred_cycle == 10
final_pred_cycle == 100
\* n_soc_windows, the default of check_relaxation_features_viable
n_soc_windows == 8
\* DiagnosticCyclesFeatures.diagnostic_cycle_types
diagnostic_cycle_types == {"reset", "hppc", "rpt_0.2C", "rpt_1C", "rpt_2C"}

\* the summary of a run: whether it has a cycle_index column, and the first and
\* last cycle index of its rows (one row per cycle, no gaps); without the column
\* only the number of rows is read
Summaries ==
    [has_cycle_index : {TRUE},
     min_cycle : {0, init_pred_cycle, init_pred_cycle + 1},
     max_cycle : {final_pred_cycle, final_pred_cycle + 1}]
    \cup [has_cycle_index : {FALSE}, min_cycle : {0},
          max_cycle : {final_pred_cycle - 1, final_pred_cycle}]

\* len(summary.index)
SummaryLen(sm) == sm.max_cycle - sm.min_cycle + 1

\* one HPPC occurrence of diagnostic_interpolated: the number of distinct step
\* indices, and of distinct step counters of the second step index
HppcOccurrences ==
    {[steps |-> 1, counters |-> 0],
     [steps |-> 2, counters |-> n_soc_windows],
     [steps |-> 2, counters |-> n_soc_windows + 1]}

\* the HPPC occurrences of a run, in cycle order: none, one or two (the check
\* reads the first two)
HppcLists ==
    {<<>>} \cup {<<o>> : o \in HppcOccurrences}
    \cup {<<o, q>> : o \in HppcOccurrences, q \in HppcOccurrences}

\* the cycle types a non-empty diagnostic_summary may list
CycleTypeSets ==
    {diagnostic_cycle_types,
     diagnostic_cycle_types \ {"hppc"},
     diagnostic_cycle_types \cup {"rpt_3C"}}

\* the diagnostic part of a run: absent (no such attributes), or the cycle types
\* of diagnostic_summary (none when it is empty), the HPPC occurrences of
\* diagnostic_interpolated and its number of contiguous rpt_0.2C occurrences
NoDiagnostic == [present |-> FALSE, cycle_types |-> {}, hppc |-> <<>>, rpt_occurrences |-> 0]

Diagnostics ==
    {NoDiagnostic}
    \cup [present : {TRUE}, cycle_types : {{}}, hppc : {<<>>}, rpt_occurrences : {0}]
    \cup [present : {TRUE}, cycle_types : CycleTypeSets, hppc : HppcLists,
          rpt_occurrences : {2}]
    \cup [present : {TRUE}, cycle_types : {diagnostic_cycle_types},
          hppc : {[i \in 1..2 |-> [steps |-> 2, counters |-> n_soc_windows + 1]]},
          rpt_occurrences : {1}]
    \cup [present : {TRUE}, cycle_types : {diagnostic_cycle_types}, hppc : {<<>>},
          rpt_occurrences : {0}]

\* what loadfn(path) can return: a ProcessedCyclerRun
RunRecords == [summary : Summaries, diagnostic : Diagnostics]

\* ------------------------------------------------------------------ extractors
\* featurizer_classes (featurize.py:1109)
featurizer_classes ==
    <<"DeltaQFastCharge", "TrajectoryFastCharge", "DiagnosticCyclesFeatures",
      "DiagnosticProperties">>

\* DeltaQFastCharge.validate_data (featurize.py:556-576); TrajectoryFastCharge
\* inherits it
DeltaQValidateBug(r) ==
    IF r.summary.has_cycle_index
    THEN /\ r.summary.max_cycle >= final_pred_cycle
         /\ r.summary.min_cycle <= init_pred_cycle
    ELSE SummaryLen(r.summary) > final_pred_cycle

DeltaQValidate(r) ==
    IF r.summary.has_cycle_index
    THEN /\ r.summary.max_cycle > final_pred_cycle
         /\ r.summary.min_cycle <= init_pred_cycle
    ELSE SummaryLen(r.summary) > final_pred_cycle

\* check_relaxation_features_viable (featurize.py:209-254): "True", "False", or
\* the IndexError of hppc_cycle_list[hppc_chosen] or reg_step_list[reg_step_relax]
RelaxationViableBug(r) ==
    LET hppc == r.diagnostic.hppc
        Broken(i) == Len(hppc) < i \/ hppc[i].steps < 2
        Enough(i) == hppc[i].counters >= n_soc_windows
    IN  IF Broken(1) \/ Broken(2) THEN "IndexError"
        ELSE IF Enough(1) /\ Enough(2) THEN "True" ELSE "False"

RelaxationViable(r) ==
    LET hppc == r.diagnostic.hppc
        Broken(i) == Len(hppc) < i \/ hppc[i].steps < 2
        Enough(i) == hppc[i].counters - 1 >= n_soc_windows
    IN  IF Broken(1) \/ Broken(2) THEN "IndexError"
        ELSE IF Enough(1) /\ Enough(2) THEN "True" ELSE "False"

\* DiagnosticCyclesFeatures.validate_data (featurize.py:185-207);
\* DiagnosticProperties inherits it
DiagnosticValidate(r) ==
    IF ~r.diagnostic.present THEN "False"
    ELSE IF r.diagnostic.cycle_types = {} THEN "False"
    ELSE IF RelaxationViable(r) = "IndexError" THEN "IndexError"
    ELSE IF r.diagnostic.cycle_types = diagnostic_cycle_types
            /\ RelaxationViable(r) = "True"
    THEN "True" ELSE "False"

\* cls.validate_data(processed_cycler_run): "True", "False" or an exception
ValidateData(cls, r) ==
    IF cls \in {"DeltaQFastCharge", "TrajectoryFastCharge"}
    THEN (IF DeltaQValidate(r) THEN "True" ELSE "False")
    ELSE DiagnosticValidate(r)

\* the exception cls.features_from_processed_cycler_run raises, or "none":
\* DeltaQFastCharge reads the summary rows 0..99 by label (featurize.py:605-613),
\* DiagnosticCyclesFeatures the second rpt_0.2C occurrence (featurize.py:467-468)
ComputeFault(cls, r) ==
    IF cls = "DeltaQFastCharge" /\ SummaryLen(r.summary) < final_pred_cycle
    THEN "KeyError"
    ELSE IF cls = "DiagnosticCyclesFeatures" /\ r.diagnostic.rpt_occurrences < 2
    THEN "IndexError"
    ELSE "none"

\* the table cls.features_from_processed_cycler_run returns
Features(cls, r) == [variant |-> cls, summary |-> r.summary, diagnostic |-> r.diagnostic]

\* metadata_from_processed_cycler_run (featurize.py:129-136)
Metadata(r) == [barcode |-> "barcode", protocol |-> "protocol", channel_id |-> "channel_id"]

\* input paths: a directory and the words of the file name
Paths ==
    {[dir |-> "structure", base |-> <<"PreDiag", "a", "structure">>],
     [dir |-> "structure", base |-> <<"PreDiag", "b", "structure">>]}

\* beep.collate.scrub_underscore_suffix: drops the pipeline's suffix word
ScrubUnderscoreSuffix(base) ==
    IF base # <<>> /\ base[Len(base)] \in {"structure", "processed"}
    THEN SubSeq(base, 1, Len(base) - 1) ELSE base

\* beep.collate.add_suffix_to_filename
AddSuffixToFilename(base, suffix) == Append(base, suffix)

\* get_feature_object_name_and_path (featurize.py:98-122)
FeatureName(cls, input_path, feature_dir) ==
    [dir |-> <<feature_dir, cls>>,
     base |-> AddSuffixToFilename(ScrubUnderscoreSuffix(input_path.base),
                                  <<"features", cls>>)]

\* BeepFeatures.from_run (featurize.py:70-91): the calls it makes, and the
\* object it returns, False, or the exception that leaves it
FromRunMetadataFirst(cls, input_filename, feature_dir, r) ==
    LET v == ValidateData(cls, r)
    IN  IF v = "True"
        THEN [result |-> "object", exc |-> "none",
              calls |-> <<"validate_data", "get_feature_object_name_and_path",
                          "metadata_from_processed_cycler_run",
                          "features_from_processed_cycler_run">>,
              object |-> [name |-> FeatureName(cls, input_filename, feature_dir),
                          X |-> Features(cls, r), metadata |-> Metadata(r)]]
        ELSE [result |-> "False", exc |-> "none", calls |-> <<"validate_data">>,
              object |-> NoneVal]

FromRunSwallow(cls, input_filename, feature_dir, r) ==
    LET v == ValidateData(cls, r)
        f == ComputeFault(cls, r)
    IN  IF v = "True" /\ f = "none"
        THEN [result |-> "object", exc |-> "none",
              calls |-> <<"validate_data", "get_feature_object_name_and_path",
                          "features_from_processed_cycler_run",
                          "metadata_from_processed_cycler_run">>,
              object |-> [name |-> FeatureName(cls, input_filename, feature_dir),
                          X |-> Features(cls, r), metadata |-> Metadata(r)]]
        ELSE [result |-> "False", exc |-> "none", calls |-> <<"validate_data">>,
              object |-> NoneVal]

FromRun(cls, input_filename, feature_dir, r) ==
    LET v == ValidateData(cls, r)
        f == ComputeFault(cls, r)
    IN  IF v = "True"
        THEN IF f = "none"
             THEN [result |-> "object", exc |-> "none",
                   calls |-> <<"validate_data", "get_feature_object_name_and_path",
                               "features_from_processed_cycler_run",
                               "metadata_from_processed_cycler_run">>,
                   object |-> [name |-> FeatureName(cls, input_filename, feature_dir),
                               X |-> Features(cls, r), metadata |-> Metadata(r)]]
             ELSE [result |-> "raise", exc |-> f,
                   calls |-> <<"validate_data", "get_feature_object_name_and_path",
                               "features_from_processed_cycler_run">>,
                   object |-> NoneVal]
        ELSE IF v = "False"
        THEN [result |-> "False", exc |-> "none", calls |-> <<"validate_data">>,
              object |-> NoneVal]
        ELSE [result |-> "raise", exc |-> v, calls |-> <<"validate_data">>,
              object |-> NoneVal]

\* ------------------------------------------------------------------ batch driver
\* processed_dir of process_file_list_from_json (featurize.py:1060, 1093-1094)
processed_dir == "data-share/features/"

\* dumpfn(featurizer, featurizer.name) (featurize.py:1113): one write, under the
\* object's name
DumpFnBug(store, featurizer) == store

DumpFn(store, featurizer) == Append(store, featurizer.name)

\* the manifest entry of a featurized pair (featurize.py:1114-1118)
SuccessEntryBug(featurizer, path, run_id) ==
    [path |-> featurizer.name, run |-> run_id, result |-> "",
     message |-> [comment |-> "", error |-> ""]]

SuccessEntry(featurizer, path, run_id) ==
    [path |-> featurizer.name, run |-> run_id, result |-> "success",
     message |-> [comment |-> "", error |-> ""]]

\* the manifest entry of a pair from_run returned False for (featurize.py:1121-1125)
IncompleteEntryBug(path, run_id) ==
    [path |-> path, run |-> run_id, result |-> "incomplete",
     message |-> [comment |-> "", error |-> ""]]

IncompleteEntry(path, run_id) ==
    [path |-> path, run |-> run_id, result |-> "incomplete",
     message |-> [comment |-> "Insufficient or incorrect data for featurization",
                  error |-> ""]]

\* the job descriptor: file_list and the parallel run_list
InitBatch ==
    /\ DatasetIdle
    /\ FnIdle
    /\ rng = 0
    /\ pc = "load"
    /\ \E n \in 1..MaxFiles :
        /\ file_list \in [1..n -> Paths]
        /\ run_ids = [i \in 1..n |-> i]
    /\ run_pos = 0 /\ cls_pos = 0
    /\ processed_cycler_run = NoneVal
    /\ processed_paths_list = <<>> /\ processed_run_list = <<>>
    /\ processed_result_list = <<>> /\ processed_message_list = <<>>
    /\ dumped = <<>>
    /\ calls = <<>>
    /\ last_pair = NoneVal
    /\ output_data = NoneVal
    /\ raised = "none"

\* the head of the loop over zip(file_list, run_ids): loadfn(path)
\* (featurize.py:1105-1107)
LoadRun ==
    /\ pc = "load"
    /\ run_pos < Len(file_list)
    /\ run_pos' = run_pos + 1
    /\ cls_pos' = 0
    /\ processed_cycler_run' \in RunRecords
    /\ pc' = "featurize"
    /\ UNCHANGED <<file_list, run_ids, processed_paths_list, processed_run_list,
                   processed_result_list, processed_message_list, dumped, calls,
                   last_pair, output_data, raised>>
    /\ UNCHANGED dsVars
    /\ UNCHANGED fnVars

\* one pass of the loop over featurizer_classes (featurize.py:1110-1126); an
\* exception leaves process_file_list_from_json, and main logs and re-raises it
\* (featurize.py:1152-1158)
Featurize ==
    /\ pc = "featurize"
    /\ LET path == file_list[run_pos]
           run_id == run_ids[run_pos]
           cls == featurizer_classes[cls_pos + 1]
       IN \E out \in {FromRun(cls, path, processed_dir, processed_cycler_run)} :
          \E entry \in {IF out.result = "object"
                        THEN SuccessEntry(out.object, path, run_id)
                        ELSE IncompleteEntry(path, run_id)} :
            /\ calls' = out.calls
            /\ last_pair' = [path |-> path, run_id |-> run_id, cls |-> cls,
                             record |-> processed_cycler_run, result |-> out.result,
                             exc |-> out.exc, object |-> out.object]
            /\ IF out.result = "raise"
               THEN /\ pc' = "raised"
                    /\ raised' = out.exc
                    /\ UNCHANGED <<cls_pos, processed_paths_list, processed_run_list,
                                   processed_result_list, processed_message_list,
                                   dumped>>
               ELSE /\ processed_paths_list' = Append(processed_paths_list, entry.path)
                    /\ processed_run_list' = Append(processed_run_list, entry.run)
                    /\ processed_result_list' = Append(processed_result_list, entry.result)
                    /\ processed_message_list' =
                           Append(processed_message_list, entry.message)
                    /\ dumped' = IF out.result = "object"
                                 THEN DumpFn(dumped, out.object) ELSE dumped
                    /\ cls_pos' = cls_pos + 1
                    /\ pc' = IF cls_pos + 1 = Len(featurizer_classes)
                             THEN "load" ELSE "featurize"
                    /\ UNCHANGED raised
    /\ UNCHANGED <<file_list, run_ids, run_pos, processed_cycler_run, output_data>>
    /\ UNCHANGED dsVars
    /\ UNCHANGED fnVars

\* after the loop: output_data is assembled and returned (featurize.py:1128-1136)
Emit ==
    /\ pc = "load"
    /\ run_pos = Len(file_list)
    /\ output_data' = [file_list |-> processed_paths_list,
                       run_list |-> processed_run_list,
                       result_list |-> processed_result_list,
                       message_list |-> processed_message_list]
    /\ pc' = "done"
    /\ UNCHANGED <<file_list, run_ids, run_pos, cls_pos, processed_cycler_run,
                   processed_paths_list, processed_run_list, processed_result_list,
                   processed_message_list, dumped, calls, last_pair, raised>>
    /\ UNCHANGED dsVars
    /\ UNCHANGED fnVars

NextBatch == LoadRun \/ Featurize \/ Emit

SpecBatch == InitBatch /\ [][NextBatch]_vars

\* ------------------------------------------------------------------ build from run records
\* a hyperparameter record, by its keys; the keys FEATURE_HYPERPARAMS declares
\* for a variant
ExpectedKeys(v) == IF v = "DeltaQFastCharge" THEN {"dq"} ELSE {"dp"}

DefaultRecord(v) == [keys |-> ExpectedKeys(v)]

\* the entries a caller's metadata_list may hold: None, or a record with the
\* keys of one of the variants
MetadataEntries == {NoneVal} \cup {DefaultRecord(v) : v \in Variants}

\* metadata_list: None, or one entry per requested variant
MetadataLists(feature_class_list) ==
    {NoneVal} \cup {List(ml) : ml \in [1..Len(feature_class_list) -> MetadataEntries]}

\* os.listdir(processed_dir): the stored run records, in any listing order
RunListings ==
    {<<>>} \cup {<<f>> : f \in FileNames}
    \cup {fg \in {<<f, g>> : f \in FileNames, g \in FileNames} : fg[1] # fg[2]}

\* processed_run_list as given, or the project-based listing (dataset.py:176-181):
\* a file is listed once for every project whose name it starts with
RunFiles(run_list, listing, project_list) ==
    IF run_list # NoneVal THEN run_list.items
    ELSE Flatten([i \in 1..Len(listing) |->
             Flatten([p \in 1..Len(project_list) |->
                 IF StartsWith(listing[i], project_list[p])
                 THEN <<listing[i]>> ELSE <<>>])])

\* the first position of metadata_list holding a record, or 0
FirstExplicit(metadata_list) ==
    LET S == {i \in 1..Len(metadata_list.items) : metadata_list.items[i] # NoneVal}
    IN  IF S = {} THEN 0 ELSE CHOOSE i \in S : \A j \in S : i <= j

\* the entry the loop of dataset.py:166-171 leaves for an absent one
DefaultOrNone(v, hyperparams) ==
    IF v \in hyperparams THEN DefaultRecord(v) ELSE NoneVal

\* BeepDataset.from_processed_cycler_runs (dataset.py:137-197): where it ends
\* (phase), with which exception, the metadata_list it has then, the run
\* records loaded and the from_run calls attempted.  hyperparams is the set of
\* variants FEATURE_HYPERPARAMS has an entry for.
ProcessedCyclerRuns(project_list, run_list, feature_class_list, metadata_list, listing, hyperparams) ==
    LET n == Len(feature_class_list)
        k == IF metadata_list = NoneVal THEN 0 ELSE FirstExplicit(metadata_list)
        resolved == List([i \in 1..n |->
                        IF metadata_list.items[i] = NoneVal
                        THEN DefaultOrNone(feature_class_list[i], hyperparams)
                        ELSE metadata_list.items[i]])
        runs == RunFiles(run_list, listing, project_list)
        End(phase, e, ml, loaded, attempted) ==
            [phase |-> phase, err |-> e, metadata_list |-> ml, loaded |-> loaded,
             from_run_calls |-> attempted, returned |-> FALSE]
    IN  IF metadata_list = NoneVal /\ n > 0
        \* metadata_list[idx] = ... on None (dataset.py:162, 164)
        THEN End("resolve", "TypeError", NoneVal, 0, 0)
        ELSE IF k > 0
        \* feature_class.class_feature_name.keys() (dataset.py:172)
        THEN End("resolve", "AttributeError",
                 List([i \in 1..n |-> IF i < k THEN resolved.items[i]
                                                ELSE metadata_list.items[i]]), 0, 0)
        ELSE IF runs # <<>> /\ n > 0
        \* from_run is given one argument too many (dataset.py:187-188)
        THEN End("extract", "TypeError", resolved, 1, 1)
        ELSE IF n = 0
        \* every run is loaded, then reduce() of an empty list (dataset.py:196)
        THEN End("join", "TypeError", metadata_list, Len(runs), 0)
        \* no run: the frames are empty (dataset.py:196-197)
        ELSE End("join", IF n = 1 THEN "AttributeError" ELSE "KeyError", resolved, 0, 0)

FromProcessedCyclerRuns ==
    /\ call_args.fn = "none"
    /\ \E project_list \in ProjectLists, feature_class_list \in FeatureClassLists :
       \E run_list \in {NoneVal} \cup {List(l) : l \in RunListings},
          listing \in RunListings :
       \E metadata_list \in MetadataLists(feature_class_list),
          hyperparams \in SUBSET Variants :
          /\ call_args' = [fn |-> "from_processed_cycler_runs",
                           project_list |-> project_list,
                           processed_run_list |-> run_list,
                           feature_class_list |-> feature_class_list,
                           metadata_list |-> metadata_list,
                           listing |-> listing, hyperparams |-> hyperparams]
          /\ call_ret' = ProcessedCyclerRuns(project_list, run_list,
                              feature_class_list, metadata_list, listing, hyperparams)
    /\ UNCHANGED <<dsVars, batchVars>>

InitRunRecords == DatasetIdle /\ rng = 0 /\ BatchIdle /\ FnIdle

NextRunRecords == FromProcessedCyclerRuns

SpecRunRecords == InitRunRecords /\ [][NextRunRecords]_vars

\* ------------------------------------------------------------------ validation
\* validate_data of every extractor on one run record (featurize.py:185-207,
\* 556-576)
ValidateDataCall ==
    /\ call_args.fn = "none"
    /\ \E r \in RunRecords :
          /\ call_args' = [fn |-> "validate_data", run |-> r]
          /\ call_ret' = [value |-> [c \in Range(featurizer_classes) |->
                                        ValidateData(c, r)]]
    /\ UNCHANGED <<dsVars, batchVars>>

\* check_relaxation_features_viable on a run record that has the diagnostic
\* tables (featurize.py:209-254)
CheckRelaxationFeaturesViable ==
    /\ call_args.fn = "none"
    /\ \E r \in {q \in RunRecords : q.diagnostic.present} :
          /\ call_args' = [fn |-> "check_relaxation_features_viable", run |-> r]
          /\ call_ret' = [value |-> RelaxationViable(r)]
    /\ UNCHANGED <<dsVars, batchVars>>

InitValidate == DatasetIdle /\ rng = 0 /\ BatchIdle /\ FnIdle

NextValidate == ValidateDataCall \/ CheckRelaxationFeaturesViable

SpecValidate == InitValidate /\ [][NextValidate]_vars

\* ------------------------------------------------------------------ naming
\* input paths offered to get_feature_object_name_and_path: two runs of one
\* directory, and runs of another directory, one of them under a file name the
\* first directory also holds
NamePaths ==
    Paths \cup {[dir |-> "archive", base |-> <<"PreDiag", "a", "structure">>],
                [dir |-> "archive", base |-> <<"PreDiag", "c", "structure">>]}

\* cls.get_feature_object_name_and_path(input_path, feature_dir) for two
\* (extractor, run) pairs under one feature directory (featurize.py:98-122)
GetFeatureObjectNameAndPath ==
    /\ call_args.fn = "none"
    /\ \E c1 \in Range(featurizer_classes), c2 \in Range(featurizer_classes) :
       \E p1 \in NamePaths, p2 \in NamePaths :
          /\ call_args' = [fn |-> "get_feature_object_name_and_path",
                           pairs |-> <<[cls |-> c1, input_path |-> p1],
                                       [cls |-> c2, input_path |-> p2]>>,
                           feature_dir |-> processed_dir]
          /\ call_ret' = [names |-> <<FeatureName(c1, p1, processed_dir),
                                      FeatureName(c2, p2, processed_dir)>>]
    /\ UNCHANGED <<dsVars, batchVars>>

InitNames == DatasetIdle /\ rng = 0 /\ BatchIdle /\ FnIdle

NextNames == GetFeatureObjectNameAndPath

SpecNames == InitNames /\ [][NextNames]_vars

\* ------------------------------------------------------------------ claims: dataset
\* the run identifiers every one of the tables holds
CommonRuns(ts) == {r \in RunIds : \A i \in 1..Len(ts) : r \in Range(ts[i])}

RunsOfFrame(f) == {data[f.rows[i]] : i \in 1..Len(f.rows)}

\* the rows of data that belong to run r
RowsOfRun(r) == {i \in 1..Len(data) : data[i] = r}

\* all rows of run r are rows of partition f / none is
AllIn(r, f) == RowsOfRun(r) \subseteq Range(f.rows)
NoneIn(r, f) == RowsOfRun(r) \cap Range(f.rows) = {}

\* C2: after a split by run, every run of the dataset has all its rows in the
\* train partition and none in the test partition, or the reverse; no run has
\* rows on both sides.
C2_NoLeakage ==
    (X_train # NoneVal /\ X_test # NoneVal /\ y_train # NoneVal /\ y_test # NoneVal) =>
        \A r \in Range(data) :
            \/ AllIn(r, X_train) /\ AllIn(r, y_train)
               /\ NoneIn(r, X_test) /\ NoneIn(r, y_test)
            \/ AllIn(r, X_test) /\ AllIn(r, y_test)
               /\ NoneIn(r, X_train) /\ NoneIn(r, y_train)

\* a split by run in which a run of several rows went to the test partition and
\* another run to the train partition
C2_Witness ==
    /\ X_train # NoneVal /\ X_test # NoneVal
    /\ last_call # NoneVal /\ last_call.key.split_by_cell
    /\ \E r \in Range(data) : Cardinality(RowsOfRun(r)) > 1 /\ AllIn(r, X_test)
    /\ X_train.rows # <<>>

\* C3: a call of generate_train_test_split with the arguments (seed, test_size,
\* split mode, columns) of a remembered earlier call on the same dataset
\* produces the partitions the earlier call produced, whatever was called in
\* between.
C3_Deterministic ==
    [][(ref_split # NoneVal /\ last_call'.key = ref_split.key)
        => last_call'.produced = ref_split.produced]_vars

\* a split by run repeated with the arguments of a remembered call after a call
\* with another seed, giving the same non-empty test partition
C3_Witness ==
    /\ ref_split # NoneVal /\ last_call # NoneVal
    /\ ref_split.later = 2
    /\ last_call.key = ref_split.key
    /\ last_call.produced = ref_split.produced
    /\ last_call.produced # <<>>
    /\ X_test.rows # <<>>
    /\ rng # SeedState(last_call.key.seed)

\* Python's round(n * tenths / 10): to the nearest integer, a half to the even one
Round(n, tenths) ==
    LET q == (n * tenths) \div 10
        rem == (n * tenths) % 10
    IN  IF rem < 5 THEN q
        ELSE IF rem > 5 THEN q + 1
        ELSE IF q % 2 = 0 THEN q ELSE q + 1

\* C4: after a split by run the test runs are round(test_size * total_runs)
\* distinct runs of the dataset and the train runs are exactly the others.
C4_TestSetSize ==
    (last_call # NoneVal /\ last_call.key.split_by_cell /\ last_call.produced # <<>>) =>
        /\ Range(last_call.test_cells) \subseteq Range(filenames)
        /\ Cardinality(Range(last_call.test_cells))
             = Round(Len(filenames), last_call.key.test_size)
        /\ Range(last_call.train_cells)
             = Range(filenames) \ Range(last_call.test_cells)

\* a column list that is None or empty
AbsentOrEmpty(columns) == columns = NoneVal \/ columns = List(<<>>)

\* C5: a call whose predictors or outcomes list is None or empty raises the
\* configuration error and produces no partitions.
C5_MissingColumnsRaise ==
    (last_call # NoneVal
     /\ (AbsentOrEmpty(last_call.key.predictors) \/ AbsentOrEmpty(last_call.key.outcomes)))
        => (err = "ValueError" /\ last_call.produced = <<>>)

\* ------------------------------------------------------------------ claims: batch
\* C6: from_run calls validate_data first; when it is false it returns False
\* and calls nothing else; when it is true it calls the naming step, then
\* features_from_processed_cycler_run, then metadata_from_processed_cycler_run,
\* and returns the object holding the generated name and those two results
\* (metadata is not reached when the computation raises).
C6_FromRunOrder ==
    last_pair # NoneVal =>
        LET v == ValidateData(last_pair.cls, last_pair.record)
        IN  /\ calls # <<>> /\ calls[1] = "validate_data"
            /\ v = "False" =>
                 /\ last_pair.result = "False"
                 /\ calls = <<"validate_data">>
            /\ (v = "True" /\ last_pair.result # "raise") =>
                 /\ calls = <<"validate_data", "get_feature_object_name_and_path",
                              "features_from_processed_cycler_run",
                              "metadata_from_processed_cycler_run">>
                 /\ last_pair.result = "object"
                 /\ last_pair.object =
                      [name |-> FeatureName(last_pair.cls, last_pair.path, processed_dir),
                       X |-> Features(last_pair.cls, last_pair.record),
                       metadata |-> Metadata(last_pair.record)]
            /\ (v = "True" /\ last_pair.result = "raise") =>
                 calls = <<"validate_data", "get_feature_object_name_and_path",
                           "features_from_processed_cycler_run">>

\* a run that passed validation and was packaged
C6_Witness ==
    /\ last_pair # NoneVal
    /\ ValidateData(last_pair.cls, last_pair.record) = "True"
    /\ last_pair.result = "object"
    /\ Len(calls) = 4

\* (run, extractor) pairs the loop has finished
Completed ==
    IF run_pos = 0 THEN 0 ELSE Len(featurizer_classes) * (run_pos - 1) + cls_pos

C8_FaultDoesNotAbort ==
    (last_pair # NoneVal /\ last_pair.result = "raise") =>
        /\ pc # "raised"
        /\ raised = "none"
        /\ processed_run_list # <<>>
        /\ processed_run_list[Len(processed_run_list)] = last_pair.run_id
        /\ processed_message_list[Len(processed_message_list)].error # ""

C10_ManifestShape ==
    LET n == Len(processed_paths_list)
        k == Len(featurizer_classes)
    IN  /\ Len(processed_run_list) = n
        /\ Len(processed_result_list) = n
        /\ Len(processed_message_list) = n
        /\ n = Completed
        /\ \A i \in 1..n :
            LET path == file_list[((i - 1) \div k) + 1]
                cls == featurizer_classes[((i - 1) % k) + 1]
            IN  /\ processed_run_list[i] = run_ids[((i - 1) \div k) + 1]
                /\ processed_result_list[i] \in {"success", "incomplete"}
                /\ processed_result_list[i] = "success" =>
                     processed_paths_list[i] = FeatureName(cls, path, processed_dir)
                /\ processed_result_list[i] = "incomplete" =>
                     processed_paths_list[i] = path
                /\ DOMAIN processed_message_list[i] = {"comment", "error"}

\* a manifest holding a success and an incomplete entry
C10_Witness ==
    /\ \E i \in 1..Len(processed_result_list) : processed_result_list[i] = "success"
    /\ \E i \in 1..Len(processed_result_list) : processed_result_list[i] = "incomplete"
    /\ pc = "done"

\* ------------------------------------------------------------------ claims: artifacts
\* the positions of the manifest recorded success, in order
SuccessPositions ==
    SelectSeq([i \in 1..Len(processed_result_list) |-> i],
              LAMBDA i : processed_result_list[i] = "success")

\* the generated name of the pair behind the i-th manifest entry
PairName(i) ==
    LET k == Len(featurizer_classes)
    IN  FeatureName(featurizer_classes[((i - 1) % k) + 1],
                    file_list[((i - 1) \div k) + 1], processed_dir)

\* C11: at every point of the batch the writes made so far are, in order, one
\* write for each pair recorded success, under that pair's generated name, and
\* none for a pair recorded incomplete.
C11_OneArtifactPerSuccess ==
    /\ Len(dumped) = Len(SuccessPositions)
    /\ \A j \in 1..Len(dumped) : dumped[j] = PairName(SuccessPositions[j])

\* a finished batch with a written success pair after an incomplete pair
C11_Witness ==
    /\ pc = "done"
    /\ Len(dumped) >= 2
    /\ \E i \in 1..Len(processed_result_list) :
        /\ processed_result_list[i] = "incomplete"
        /\ i < SuccessPositions[Len(SuccessPositions)]

\* C12: under one feature directory, two different (run, extractor) pairs get
\* different output names: two extractors on the same run, and two different
\* runs under the same extractor.
C12_NamesUnique ==
    call_args.fn = "get_feature_object_name_and_path" =>
        (call_args.pairs[1] # call_args.pairs[2]
            => call_ret.names[1] # call_ret.names[2])

\* ------------------------------------------------------------------ claims: validation
\* diagnostic_interpolated has no rows
InterpolatedEmpty(d) == d.hppc = <<>> /\ d.rpt_occurrences = 0

\* C13: DiagnosticCyclesFeatures.validate_data returns False for a run whose
\* diagnostic cycle types are not exactly the five expected ones, and for a run
\* whose diagnostic summary or interpolated table is missing or empty.
C13_DiagnosticValidateRejects ==
    call_args.fn = "validate_data" =>
        LET d == call_args.run.diagnostic
        IN  (\/ ~d.present
             \/ d.cycle_types = {}
             \/ InterpolatedEmpty(d)
             \/ d.cycle_types # diagnostic_cycle_types)
            => call_ret.value["DiagnosticCyclesFeatures"] = "False"

\* relaxation segments of an HPPC occurrence: the distinct step counters of the
\* relaxation step, the first one excluded
Segments(o) == IF o.steps < 2 \/ o.counters = 0 THEN 0 ELSE o.counters - 1

\* both of the first two HPPC occurrences exist and have the minimum number of
\* relaxation segments
BothOccurrencesViable(d) ==
    /\ Len(d.hppc) >= 2
    /\ \A i \in 1..2 : Segments(d.hppc[i]) >= n_soc_windows

\* C14: check_relaxation_features_viable returns True exactly when the first
\* and the second HPPC occurrence each have at least n_soc_windows (8)
\* relaxation segments, the first step counter not counted.
C14_RelaxationThreshold ==
    call_args.fn = "check_relaxation_features_viable" =>
        (call_ret.value = "True" <=> BothOccurrencesViable(call_args.run.diagnostic))

\* the boundary: 8 segments in one occurrence and 7 in the other is rejected
C14_Witness ==
    /\ call_args.fn = "check_relaxation_features_viable"
    /\ Len(call_args.run.diagnostic.hppc) = 2
    /\ Segments(call_args.run.diagnostic.hppc[1]) = n_soc_windows
    /\ Segments(call_args.run.diagnostic.hppc[2]) = n_soc_windows - 1
    /\ call_ret.value = "False"

\* C15: check_relaxation_features_viable returns False, and raises nothing, for
\* every run in which one of the first two HPPC occurrences is missing, has no
\* relaxation step or has too few relaxation segments.
C15_RelaxationFailsClosed ==
    call_args.fn = "check_relaxation_features_viable" =>
        (~BothOccurrencesViable(call_args.run.diagnostic) => call_ret.value = "False")

\* C16: on a run with cycle indices, DeltaQFastCharge.validate_data is False
\* when the largest cycle index is at most 100 and True when it is at least 101
\* and the smallest is at most 10; on every run TrajectoryFastCharge gives the
\* same result.
C16_DeltaQValidation ==
    call_args.fn = "validate_data" =>
        LET sm == call_args.run.summary
            v == call_ret.value["DeltaQFastCharge"]
        IN  /\ (sm.has_cycle_index /\ sm.max_cycle <= 100) => v = "False"
            /\ (sm.has_cycle_index /\ sm.max_cycle >= 101 /\ sm.min_cycle <= 10)
                   => v = "True"
            /\ call_ret.value["TrajectoryFastCharge"] = v

\* a run with cycles 10 to 101, accepted by both
C16_Witness ==
    /\ call_args.fn = "validate_data"
    /\ call_args.run.summary.has_cycle_index
    /\ call_args.run.summary.min_cycle = 10
    /\ call_args.run.summary.max_cycle = 101
    /\ call_ret.value["DeltaQFastCharge"] = "True"
    /\ call_ret.value["TrajectoryFastCharge"] = "True"

\* ------------------------------------------------------------------ claims: build from run records
\* the entry the caller supplied for the i-th variant, or NoneVal
Supplied(i) ==
    IF call_args.metadata_list = NoneVal THEN NoneVal
    ELSE call_args.metadata_list.items[i]

\* C17: the hyperparameter record used for each requested variant is the
\* supplied one when there is one, else the default table's entry for the
\* variant when it has one, else none; with no metadata_list at all and with a
\* list that has absent entries.
C17_HyperparameterResolution ==
    (call_args.fn = "from_processed_cycler_runs" /\ call_args.feature_class_list # <<>>)
    => /\ call_ret.phase # "resolve"
       /\ call_ret.metadata_list =
            List([i \in 1..Len(call_args.feature_class_list) |->
                    IF Supplied(i) # NoneVal THEN Supplied(i)
                    ELSE DefaultOrNone(call_args.feature_class_list[i],
                                       call_args.hyperparams)])

\* the positions for which the caller supplied a record
Explicit == {i \in 1..Len(call_args.feature_class_list) : Supplied(i) # NoneVal}

\* C18: a supplied record whose keys differ from the variant's expected keys
\* raises the configuration error before any run record is loaded and before
\* any extractor is invoked; supplied records whose keys all match raise nothing.
C18_KeyMismatchRaises ==
    call_args.fn = "from_processed_cycler_runs" =>
        /\ (\E i \in Explicit :
                Supplied(i).keys # ExpectedKeys(call_args.feature_class_list[i]))
            => /\ call_ret.err = "ValueError"
               /\ call_ret.loaded = 0 /\ call_ret.from_run_calls = 0
        /\ (/\ Explicit # {}
            /\ \A i \in Explicit :
                  Supplied(i).keys = ExpectedKeys(call_args.feature_class_list[i]))
            => call_ret.phase # "resolve"

\* C19: with an empty variant list or an empty project list the builder raises
\* before any run record is loaded and before any extractor is invoked, and
\* returns no dataset.
C19_EmptyListsRaise ==
    (/\ call_args.fn = "from_processed_cycler_runs"
     /\ (call_args.feature_class_list = <<>> \/ call_args.project_list = <<>>))
    => /\ call_ret.err # "none"
       /\ ~call_ret.returned
       /\ call_ret.loaded = 0 /\ call_ret.from_run_calls = 0

\* C20: every row of an assembled dataset has a run identifier of its own: the
\* number of rows is the number of distinct run identifiers.
C20_UniqueRowKey ==
    built => Len(data) = Cardinality(Range(data))

\* C21: a build from run records that loads a run with a variant requested
\* (whatever that run's validation gives) is not aborted by the extraction: it
\* goes on to the join and returns a dataset.
C21_BuildSkipsInvalidRuns ==
    (/\ call_args.fn = "from_processed_cycler_runs"
     /\ call_args.feature_class_list # <<>>
     /\ call_ret.loaded > 0)
    => /\ call_ret.phase # "extract"
       /\ call_ret.err = "none"
       /\ call_ret.returned

\* ------------------------------------------------------------------ Delta-Q features
\* the labels features_from_processed_cycler_run appends, in order
\* (featurize.py:606-691)
DeltaQLabels ==
    <<"discharge_capacity_cycle_2", "max_discharge_capacity_difference",
      "discharge_capacity_cycle_100", "integrated_time_temperature_cycles_1:100",
      "charge_time_cycles_1:5",
      "abs_min_discharge_capacity_difference_cycles_2:100",
      "abs_mean_discharge_capacity_difference_cycles_2:100",
      "abs_variance_discharge_capacity_difference_cycles_2:100",
      "abs_skew_discharge_capacity_difference_cycles_2:100",
      "abs_kurtosis_discharge_capacity_difference_cycles_2:100",
      "abs_first_discharge_capacity_difference_cycles_2:100",
      "max_temperature_cycles_1:100", "min_temperature_cycles_1:100",
      "slope_discharge_capacity_cycle_number_2:100",
      "intercept_discharge_capacity_cycle_number_2:100",
      "slope_discharge_capacity_cycle_number_91:100",
      "intercept_discharge_capacity_cycle_number_91:100",
      "min_internal_resistance_cycles_2:100", "internal_resistance_cycle_2",
      "internal_resistance_difference_cycles_2:100", "nominal_capacity_by_median">>

\* the columns of X before X.columns = labels: those of np.zeros((1, 20)) and
\* every X[i] assigned (featurize.py:602-690)
DeltaQColumnIds == (0..19) \cup (0..20)

\* summary.discharge_capacity[label] on the summary's default index 0..n-1: the
\* position (counted from 1) of the entry read
EntryAtLabel(label) == label + 1

\* DeltaQFastCharge.features_from_processed_cycler_run (featurize.py:578-694):
\* the exception, or the table by its rows, its labels and the summary entries
\* its two capacity columns hold
DeltaQFeatures(r) ==
    IF ComputeFault("DeltaQFastCharge", r) # "none"
    THEN [err |-> ComputeFault("DeltaQFastCharge", r)]
    ELSE IF Cardinality(DeltaQColumnIds) # Len(DeltaQLabels)
    THEN [err |-> "ValueError"]
    ELSE [err |-> "none", nrows |-> 1, columns |-> DeltaQLabels,
          discharge_capacity_cycle_2 |-> EntryAtLabel(1),
          discharge_capacity_cycle_100 |-> EntryAtLabel(final_pred_cycle - 1)]

\* one call of DeltaQFastCharge.features_from_processed_cycler_run
DeltaQFeaturesCall ==
    /\ call_args.fn = "none"
    /\ \E r \in RunRecords :
          /\ call_args' = [fn |-> "DeltaQFastCharge.features_from_processed_cycler_run",
                           run |-> r]
          /\ call_ret' = DeltaQFeatures(r)
    /\ UNCHANGED <<dsVars, batchVars>>

\* C22: for a run that passes the Delta-Q validation the call returns one row
\* with as many columns as labels, 20 or 21, whose discharge_capacity_cycle_2
\* is the 2nd and whose discharge_capacity_cycle_100 is the 100th entry of the
\* summary's discharge capacity.
C22_DeltaQFeatureRow ==
    (/\ call_args.fn = "DeltaQFastCharge.features_from_processed_cycler_run"
     /\ DeltaQValidate(call_args.run))
    => /\ call_ret.err = "none"
       /\ call_ret.nrows = 1
       /\ Len(call_ret.columns) \in {20, 21}
       /\ Cardinality(Range(call_ret.columns)) = Len(call_ret.columns)
       /\ call_ret.discharge_capacity_cycle_2 = 2
       /\ call_ret.discharge_capacity_cycle_100 = 100

\* ------------------------------------------------------------------ diagnostic properties
\* diagnostic_summary: one row per diagnostic occurrence, cycle indices
\* increasing; the cycle indices, types and quantity values offered
MaxDiagRows == 3
DiagCycleIndices == {1, 100, 101, 102}
DiagCycleTypes == {"reset", "hppc"}
DiagValues == {2, 3}

DiagRows ==
    [cycle_index : DiagCycleIndices, cycle_type : DiagCycleTypes,
     discharge_energy : DiagValues, discharge_capacity : DiagValues]

DiagnosticSummaries ==
    {ds \in UNION {[1..n -> DiagRows] : n \in 1..MaxDiagRows} :
        \A i \in 1..(Len(ds) - 1) : ds[i].cycle_index < ds[i + 1].cycle_index}

\* quantities of DiagnosticProperties.features_from_processed_cycler_run
\* (featurize.py:777)
quantities == <<"discharge_energy", "discharge_capacity">>

\* get_fractional_quantity_remaining (featurize.py:790-811): the rows of the
\* cycle type past cycle 100, the metric divided by the metric of the first row
\* of diagnostic_summary (a fraction, numerator and denominator)
FractionalQuantityRemainingBug(ds, metric, diagnostic_cycle_type) ==
    LET sel == SelectSeq(ds, LAMBDA row : /\ row.cycle_type = diagnostic_cycle_type
                                          /\ row.cycle_index >= 100)
    IN  [i \in 1..Len(sel) |->
            [cycle_index |-> sel[i].cycle_index,
             fractional_metric |-> <<sel[i][metric], ds[1][metric]>>]]

FractionalQuantityRemaining(ds, metric, diagnostic_cycle_type) ==
    LET sel == SelectSeq(ds, LAMBDA row : /\ row.cycle_type = diagnostic_cycle_type
                                          /\ row.cycle_index > 100)
    IN  [i \in 1..Len(sel) |->
            [cycle_index |-> sel[i].cycle_index,
             fractional_metric |-> <<sel[i][metric], ds[1][metric]>>]]

\* DiagnosticProperties.features_from_processed_cycler_run (featurize.py:768-788):
\* the rows appended, each tagged with its cycle type and its metric
DiagnosticPropertiesFeatures(ds) ==
    LET cycle_types == Unique([i \in 1..Len(ds) |-> ds[i].cycle_type])
        Tagged(metric, cycle_type) ==
            LET t == FractionalQuantityRemaining(ds, metric, cycle_type)
            IN  [i \in 1..Len(t) |->
                    [cycle_index |-> t[i].cycle_index,
                     fractional_metric |-> t[i].fractional_metric,
                     cycle_type |-> cycle_type, metric |-> metric]]
    IN  Flatten([q \in 1..Len(quantities) |->
            Flatten([c \in 1..Len(cycle_types) |->
                Tagged(quantities[q], cycle_types[c])])])

\* one call of DiagnosticProperties.features_from_processed_cycler_run
DiagnosticPropertiesCall ==
    /\ call_args.fn = "none"
    /\ \E ds \in DiagnosticSummaries :
          /\ call_args' = [fn |-> "DiagnosticProperties.features_from_processed_cycler_run",
                           diagnostic_summary |-> ds]
          /\ call_ret' = [X |-> DiagnosticPropertiesFeatures(ds)]
    /\ UNCHANGED <<dsVars, batchVars>>

\* C25: the table has, for each of the two quantities and each diagnostic
\* occurrence with cycle index above 100, exactly one row, tagged with the
\* quantity and the occurrence's cycle type, whose value is the quantity at the
\* occurrence over the quantity at the first diagnostic occurrence; it has no
\* other row, so none for an occurrence at cycle index 100 or below.
C25_DiagnosticPropertiesRows ==
    call_args.fn = "DiagnosticProperties.features_from_processed_cycler_run" =>
        LET ds == call_args.diagnostic_summary
            X == call_ret.X
            late == {i \in 1..Len(ds) : ds[i].cycle_index > 100}
        IN  /\ Len(X) = 2 * Cardinality(late)
            /\ \A i \in late : \A q \in {"discharge_energy", "discharge_capacity"} :
                  \E j \in 1..Len(X) :
                     /\ X[j].cycle_index = ds[i].cycle_index
                     /\ X[j].metric = q
                     /\ X[j].cycle_type = ds[i].cycle_type
                     /\ X[j].fractional_metric = <<ds[i][q], ds[1][q]>>

\* a summary with an occurrence at cycle 100 and one at cycle 101, of which
\* only the later one has rows
C25_Witness ==
    /\ call_args.fn = "DiagnosticProperties.features_from_processed_cycler_run"
    /\ \E i \in 1..Len(call_args.diagnostic_summary) :
          call_args.diagnostic_summary[i].cycle_index = 100
    /\ \E i \in 1..Len(call_args.diagnostic_summary) :
          call_args.diagnostic_summary[i].cycle_index = 101
    /\ Len(call_ret.X) = 2

\* ------------------------------------------------------------------ fast-charge windows
\* diagnostic_interpolated: rows with a cycle type and a value of the quantity
\* (a finite number, NaN or infinity); the longest series offered
MaxSeries == 6
SeriesTypes == {"rpt_0.2C", "hppc"}
SeriesValues == {"1", "nan", "inf"}

InterpolatedSeries ==
    UNION {[1..n -> [cycle_type : SeriesTypes, value : SeriesValues]] : n \in 1..MaxSeries}

\* Q_seg as offered (500 by default, featurize.py:424)
QSegChoices == {2, 3}

\* positions are counted from 0, as in the code
At0(s, i) == s[i + 1]

\* s[a:b] on a series: the positions a..b-1 that exist
Slice0(s, a, b) == SubSeq(s, a + 1, IF b < Len(s) THEN b ELSE Len(s))

\* index_pos_list (featurize.py:447-448)
IndexPosList(di, diagnostic_cycle_type) ==
    SelectSeq([i \in 1..Len(di) |-> i - 1],
              LAMBDA i : At0(di, i).cycle_type = diagnostic_cycle_type)

\* end_list (featurize.py:450-451, 454, 459-460), for a non-empty index_pos_list
EndList(di, diagnostic_cycle_type) ==
    LET ipl == IndexPosList(di, diagnostic_cycle_type)
        inner == SelectSeq([i \in 1..(Len(ipl) - 1) |-> i - 1],
                           LAMBDA i : At0(ipl, i + 1) # At0(ipl, i) + 1)
        ends == Append([k \in 1..Len(inner) |-> At0(ipl, inner[k])], ipl[Len(ipl)])
    IN  IF At0(di, Len(di) - 1).cycle_type = diagnostic_cycle_type
        THEN Append(ends, Len(di) - 1) ELSE ends

\* start_list (featurize.py:452-453, 455, 457-458), for a non-empty index_pos_list
StartList(di, diagnostic_cycle_type) ==
    LET ipl == IndexPosList(di, diagnostic_cycle_type)
        inner == SelectSeq([i \in 1..(Len(ipl) - 1) |-> i],
                           LAMBDA i : At0(ipl, i - 1) # At0(ipl, i) - 1)
        starts == <<At0(ipl, 0)>> \o [k \in 1..Len(inner) |-> At0(ipl, inner[k])]
    IN  IF At0(di, 0).cycle_type = diagnostic_cycle_type
        THEN <<1>> \o starts ELSE starts

\* a_i - b_i on floats
FloatDiff(a, b) ==
    IF a = "nan" \/ b = "nan" THEN "nan"
    ELSE IF a = "inf" /\ b = "inf" THEN "nan"
    ELSE IF a = "inf" THEN "inf"
    ELSE IF b = "inf" THEN "-inf"
    ELSE "0"

\* [a_i - b_i for a_i, b_i in zip(x, y)] (featurize.py:471)
ZipDiff(x, y) ==
    [i \in 1..(IF Len(x) < Len(y) THEN Len(x) ELSE Len(y)) |-> FloatDiff(x[i], y[i])]

\* get_fast_charge_features (featurize.py:423-523) for one quantity and
\* cycle_comp_num = [0, 1]: the lists of occurrences, the two windows, their
\* difference and what the isnan filter keeps; min() of an empty list is a
\* ValueError (featurize.py:475)
GetFastChargeFeatures(di, diagnostic_cycle_type, Q_seg) ==
    LET values == [i \in 1..Len(di) |-> di[i].value]
        none == [err |-> "IndexError", start_list |-> <<>>, end_list |-> <<>>,
                 Qd100_1 |-> <<>>, Qd10_1 |-> <<>>, QdDiff |-> <<>>, kept |-> <<>>]
    IN  IF IndexPosList(di, diagnostic_cycle_type) = <<>> THEN none
        ELSE LET start_list == StartList(di, diagnostic_cycle_type)
                 end_list == EndList(di, diagnostic_cycle_type)
             IN  IF Len(start_list) < 2
                 THEN [none EXCEPT !.start_list = start_list, !.end_list = end_list]
                 ELSE LET w1 == Slice0(values, At0(start_list, 1) + Q_seg + 1,
                                       At0(start_list, 1) + 2 * Q_seg)
                          w0 == Slice0(values, At0(start_list, 0) + Q_seg + 1,
                                       At0(start_list, 0) + 2 * Q_seg)
                          kept == SelectSeq(ZipDiff(w1, w0), LAMBDA e : e # "nan")
                      IN  [err |-> IF kept = <<>> THEN "ValueError" ELSE "none",
                           start_list |-> start_list,
                           end_list |-> end_list, Qd100_1 |-> w1, Qd10_1 |-> w0,
                           QdDiff |-> ZipDiff(w1, w0),
                           kept |-> kept]

\* one call of get_fast_charge_features
GetFastChargeFeaturesCall ==
    /\ call_args.fn = "none"
    /\ \E di \in InterpolatedSeries, Q_seg \in QSegChoices :
          /\ call_args' = [fn |-> "get_fast_charge_features",
                           diagnostic_interpolated |-> di,
                           diagnostic_cycle_type |-> "rpt_0.2C", Q_seg |-> Q_seg]
          /\ call_ret' = GetFastChargeFeatures(di, "rpt_0.2C", Q_seg)
    /\ UNCHANGED <<dsVars, batchVars>>

InitFeatures == DatasetIdle /\ rng = 0 /\ BatchIdle /\ FnIdle

NextFeatures == DeltaQFeaturesCall \/ DiagnosticPropertiesCall \/ GetFastChargeFeaturesCall

SpecFeatures == InitFeatures /\ [][NextFeatures]_vars

\* C26: when the statistics are computed from a series that reaches past both
\* windows, each window holds Q_seg samples, their difference has Q_seg
\* elements, and no NaN and no infinity is left among the differences the
\* statistics are computed from.
C26_WindowsAndFilter ==
    (/\ call_args.fn = "get_fast_charge_features"
     /\ call_ret.err = "none"
     /\ \A k \in 0..1 : At0(call_ret.start_list, k) + 2 * call_args.Q_seg
                            <= Len(call_args.diagnostic_interpolated))
    => /\ Len(call_ret.Qd100_1) = call_args.Q_seg
       /\ Len(call_ret.Qd10_1) = call_args.Q_seg
       /\ Len(call_ret.QdDiff) = call_args.Q_seg
       /\ \A i \in 1..Len(call_ret.kept) : call_ret.kept[i] \notin {"nan", "inf", "-inf"}

\* the first and the last position of every contiguous run of the cycle type
RunStarts(di, t) ==
    SelectSeq([i \in 1..Len(di) |-> i - 1],
              LAMBDA i : At0(di, i).cycle_type = t
                         /\ (i = 0 \/ At0(di, i - 1).cycle_type # t))

RunEnds(di, t) ==
    SelectSeq([i \in 1..Len(di) |-> i - 1],
              LAMBDA i : At0(di, i).cycle_type = t
                         /\ (i = Len(di) - 1 \/ At0(di, i + 1).cycle_type # t))

\* C27: for a series that holds the cycle type, start_list is the list of the
\* first positions and end_list the list of the last positions of its
\* contiguous runs of that type, one entry per run.
C27_ContiguousRuns ==
    (/\ call_args.fn = "get_fast_charge_features"
     /\ \E i \in 1..Len(call_args.diagnostic_interpolated) :
           call_args.diagnostic_interpolated[i].cycle_type = call_args.diagnostic_cycle_type)
    => /\ call_ret.start_list =
            RunStarts(call_args.diagnostic_interpolated, call_args.diagnostic_cycle_type)
       /\ call_ret.end_list =
            RunEnds(call_args.diagnostic_interpolated, call_args.diagnostic_cycle_type)

\* ------------------------------------------------------------------ persisted form
\* the name and the metadata list of a dataset from_features returns
\* (dataset.py:114, 135)
DatasetName == "dataset"
DatasetMetadata == <<>>

\* data.to_dict("list") (dataset.py:86): each column as the list of its values
ToDictList(frame) == [file |-> frame]

\* pd.DataFrame(d["data"]) (dataset.py:96)
DataFrameOf(columns) == columns.file

\* BeepDataset.as_dict (dataset.py:76-91)
AsDict ==
    [k \in {"@module", "@class", "name", "data", "metadata", "filenames", "feature_sets"} |->
        CASE k = "@module" -> "beep.dataset"
          [] k = "@class" -> "BeepDataset"
          [] k = "name" -> DatasetName
          [] k = "data" -> ToDictList(data)
          [] k = "metadata" -> DatasetMetadata
          [] k = "filenames" -> filenames
          [] k = "feature_sets" -> feature_sets]

\* the parameters of BeepDataset.__init__ (dataset.py:52), all required
InitParameters == {"name", "data", "metadata", "filenames", "feature_sets", "dataset_dir"}

\* BeepDataset.from_dict (dataset.py:93-97): cls(**d) is a TypeError unless the
\* keys of d are exactly the parameters of __init__
FromDict(d) ==
    IF DOMAIN d # InitParameters
    THEN [err |-> "TypeError", object |-> NoneVal]
    ELSE [err |-> "none",
          object |-> [name |-> d["name"], data |-> DataFrameOf(d["data"]),
                      metadata |-> d["metadata"], filenames |-> d["filenames"],
                      feature_sets |-> d["feature_sets"],
                      dataset_dir |-> d["dataset_dir"]]]

\* from_dict on what as_dict gave, as it is or with the two "@" entries taken
\* out
AsDictFromDict ==
    /\ built
    /\ call_args.fn = "none"
    /\ \E fields_only \in BOOLEAN :
        LET d == IF fields_only
                 THEN [k \in DOMAIN AsDict \ {"@module", "@class"} |-> AsDict[k]]
                 ELSE AsDict
        IN  /\ call_args' = [fn |-> "from_dict", keys |-> DOMAIN d,
                             fields_only |-> fields_only]
            /\ call_ret' = FromDict(d)
    /\ UNCHANGED <<dsVars, batchVars>>

NextPersist == FromFeatures \/ AsDictFromDict

SpecPersist == InitDataset /\ [][NextPersist]_vars

\* C23: from_dict on the fields of as_dict succeeds and gives a dataset with
\* the same name, table, metadata list, run identifiers and feature sets.
C23_RoundTrip ==
    call_args.fn = "from_dict" =>
        /\ call_ret.err = "none"
        /\ call_ret.object.name = DatasetName
        /\ call_ret.object.data = data
        /\ call_ret.object.metadata = DatasetMetadata
        /\ call_ret.object.filenames = filenames
        /\ call_ret.object.feature_sets = feature_sets

\* ------------------------------------------------------------------ claims: split, continued
\* C24: a call with a parameters path completes, by run and by row, and leaves
\* the two parameter dictionaries keyed by exactly the runs of the train
\* partition and of the test partition.
C24_ParameterDicts ==
    (last_call # NoneVal /\ last_call.parameters_path # NoneVal)
    => /\ err = "none"
       /\ DOMAIN train_cells_parameter_dict = RunsOfFrame(X_train)
       /\ DOMAIN test_cells_parameter_dict = RunsOfFrame(X_test)

\* C28: after a split by run the train runs and the test runs are disjoint and
\* together are the dataset's run identifiers, and the rows of the train and
\* of the test partition are disjoint and together are all the rows of data.
C28_RunsPartition ==
    (last_call # NoneVal /\ last_call.key.split_by_cell /\ last_call.produced # <<>>)
    => /\ Range(last_call.train_cells) \cap Range(last_call.test_cells) = {}
       /\ Range(last_call.train_cells) \cup Range(last_call.test_cells) = Range(filenames)
       /\ Range(X_train.rows) \cap Range(X_test.rows) = {}
       /\ Range(X_train.rows) \cup Range(X_test.rows) = 1..Len(data)
       /\ Range(y_train.rows) \cap Range(y_test.rows) = {}
       /\ Range(y_train.rows) \cup Range(y_test.rows) = 1..Len(data)

\* a split by run of a dataset with more rows than runs, with runs on both sides
C28_Witness ==
    /\ last_call # NoneVal /\ last_call.key.split_by_cell
    /\ last_call.produced # <<>>
    /\ last_call.train_cells # <<>> /\ last_call.test_cells # <<>>
    /\ Len(data) > Len(filenames)

\* C29: a call that raises because predictors or outcomes is None leaves the
\* four partitions, the two parameter dictionaries and the random generator as
\* they were before the call.
C29_RaiseLeavesDataset ==
    [][(/\ last_call' # NoneVal
        /\ (last_call'.key.predictors = NoneVal \/ last_call'.key.outcomes = NoneVal))
       => /\ err' = "ValueError"
          /\ UNCHANGED <<X_train, X_test, y_train, y_test,
                         train_cells_parameter_dict, test_cells_parameter_dict, rng>>
      ]_vars

\* a call without predictors after a split: the partitions of the split remain
C29_Witness ==
    /\ last_call # NoneVal
    /\ last_call.key.predictors = NoneVal
    /\ err = "ValueError"
    /\ X_train # NoneVal /\ X_test # NoneVal
    /\ X_test.rows # <<>>

\* ------------------------------------------------------------------ listing by project
\* the stored feature tables from_features loads for one variant, by name, in
\* the order loaded: for every project, the files whose name starts with it
\* (dataset.py:118-124)
FeatureJsons(listing, project_list) ==
    Flatten([p \in 1..Len(project_list) |->
        Flatten([i \in 1..Len(listing) |->
            IF StartsWith(listing[i].name, project_list[p])
            THEN <<listing[i].name>> ELSE <<>>])])

\* the inner loops of from_features for one variant (dataset.py:117-127): the
\* files loaded and the rows of feature_df
ListFeatureJsons ==
    /\ call_args.fn = "none"
    /\ \E v \in Variants, project_list \in ProjectLists :
       \E listing \in Listings(v) :
          /\ call_args' = [fn |-> "from_features", variant |-> v,
                           names |-> [i \in 1..Len(listing) |-> listing[i].name],
                           stored_rows |-> Flatten([i \in 1..Len(listing) |->
                                                      FileRows(listing[i])]),
                           project_list |-> project_list]
          /\ call_ret' = [taken |-> FeatureJsons(listing, project_list),
                          rows |-> VariantTable(listing, project_list)]
    /\ UNCHANGED <<dsVars, batchVars>>

\* the project-based listing of from_processed_cycler_runs (dataset.py:176-181):
\* the run records the loop of dataset.py:183 then loads
ListProcessedRuns ==
    /\ call_args.fn = "none"
    /\ \E project_list \in ProjectLists, listing \in RunListings :
          /\ call_args' = [fn |-> "from_processed_cycler_runs", variant |-> "",
                           names |-> listing, stored_rows |-> <<>>,
                           project_list |-> project_list]
          /\ call_ret' = [taken |-> RunFiles(NoneVal, listing, project_list),
                          rows |-> <<>>]
    /\ UNCHANGED <<dsVars, batchVars>>

InitListing == DatasetIdle /\ rng = 0 /\ BatchIdle /\ FnIdle

NextListing == ListFeatureJsons \/ ListProcessedRuns

SpecListing == InitListing /\ [][NextListing]_vars

\* C30: no stored feature table and no run record is taken twice for a variant,
\* and the variant's table has no more rows than the tables taken hold, also
\* when a name starts with several of the projects or a project is listed twice.
C30_TakenOnce ==
    (call_args.fn \in {"from_features", "from_processed_cycler_runs"})
    => /\ \A i, j \in DOMAIN call_ret.taken :
              i # j => call_ret.taken[i] # call_ret.taken[j]
       /\ Len(call_ret.rows) <= Len(call_args.stored_rows)

====
